---------------------------- MODULE Spec2Model ----------------------------
(***************************************************************************)
(* Predator Security Suite: the Calypso card session engine declared in    *)
(* helpers/predator_crypto_calypso.h, the key-recovery (dictionary attack) *)
(* scene of scenes/predator_scene_dictionary_attack_ui.c and the contracts *)
(* viewer of scenes/predator_scene_calypso_contracts_ui.c.                 *)
(*                                                                         *)
(* The parts share no state; each specification runs one of them:          *)
(*   SpecCalypso          the session engine                               *)
(*   SpecCounter          a session on a card's counter, any amount        *)
(*   SpecDiversify        sessions with key diversifications between       *)
(*   SpecContracts        reading contracts, and the contracts viewer      *)
(*   SpecViewerThreads    the viewer, its handlers taken statement by      *)
(*                        statement in the GUI and application threads     *)
(*   SpecDict             the dictionary-attack scene, callbacks atomic    *)
(*   FairSpecDict         SpecDict with timer ticks that keep coming       *)
(*   SpecDictInterleaved  the start sequence interleaved with ticks        *)
(*   SpecDictAnyCorpus    SpecDict for key tables of any size              *)
(*   SpecDictAnyOrder     on_enter and on_exit in any order                *)
(***************************************************************************)
EXTENDS Integers, Sequences, FiniteSets, TLC

(***************************************************************************)
(* Bounds of the model.                                                    *)
(***************************************************************************)
\* Sizes of the two key tables of helpers/predator_crypto_keys.h ("980+"
\* keys in the program), scaled down.
KEELOQ_KEY_COUNT == 2
HITAG2_KEY_COUNT == 1
\* furi_get_tick() is followed up to this value.
MaxTick == 2
\* Issuer (master) keys are 1 .. NumIssuerKeys; 0 is a key of all-zero bytes.
NumIssuerKeys == 2
\* The card counter holds 0 .. MaxCounter; amounts are 1 .. MaxAmount.
MaxCounter == 2
MaxAmount == 1
\* calypso_read_all_contracts is called with max_contracts in
\* 0 .. MaxContractsArg.
MaxContractsArg == 5
\* selected_index of the contracts viewer is followed up to this value.
MaxSelectedIndex == 5
\* Calls of calypso_diversify_key with the watched inputs are counted up to
\* this number.
MaxProbeCalls == 2

DICT_FREQUENCY == 433920000

\* The length of ContractsState.contracts[]; a card has contract slots 1..4.
CONTRACT_SLOTS == 4

\* The number of values of a uint16_t (the type of the amount parameter).
UINT16_MOD == 65536
\* The largest value of the 3-byte amount field of a counter command.
AMOUNT_FIELD_MAX == 16777215
\* The counter scenario of the design document: an increase of amount 5
\* against a counter currently at 10.
ScenarioCounter == 10
ScenarioAmount == 5

(***************************************************************************)
(* The Calypso card session engine.  predator_crypto_calypso.h declares    *)
(* its types and operations; the bodies are not part of the sources, so    *)
(* what each operation does follows the design document (sections 4.3,     *)
(* 4.5, 7), and what it can change follows its declaration: a structure    *)
(* passed as a const pointer, or not passed at all, is left as it was.     *)
(***************************************************************************)
VARIABLES
    state,          \* the session state machine's state
    card,           \* the caller's CalypsoCard
    apps,           \* the CalypsoApplication of each application id
    auth_ctx,       \* the caller's CalypsoAuthContext
    card_master,    \* on the card: the issuer key behind each key index
    card_counter,   \* on the card: the counter file's value
    card_counter_max, \* on the card: the largest value the counter takes
    card_record,    \* on the card: the record file's content
    last            \* the call that returned last: its outcome and exchanges

calVars == <<state, card, apps, auth_ctx, card_master, card_counter,
             card_counter_max, card_record, last>>

SessionStates == {"Idle", "Selected", "Authenticating", "Authenticated",
                  "Closed"}

\* The failure taxonomy of the design document, and success.
Outcomes == {"Ok", "TransportFailure", "ProtocolReject", "InvalidInput",
             "NotAuthenticated"}

\* What the transport adapter answers to one exchange.
TransportResults == {"ok", "Timeout", "TransportError"}

IssuerKeys == 1 .. NumIssuerKeys
KeyIndexes == {1, 2}
\* Applications present on the card; application 3 is not.
CardAppIds == {1, 2}
RequestedAppIds == {1, 2, 3}
CardNumbers == {1, 2}
Challenges == {1, 2}
Amounts == 1 .. MaxAmount
\* The amounts a caller may ask for, up to the largest of the 3-byte field.
CallerAmounts ==
    Amounts \cup {ScenarioAmount, UINT16_MOD + ScenarioAmount, AMOUNT_FIELD_MAX}
RecordData == {1, 2}

\* The number of values of a cipher block in the model.
BlockMod == 5

\* The block cipher (3DES for Rev2 cards): for a fixed block a different key
\* gives a different output and for a fixed key a different block does; the
\* output is never the all-zero block.
calypso_3des_encrypt(key, data) == ((key * 2 + data * 3) % BlockMod) + 1

\* calypso_diversify_key handing out the key of the session in progress
\* where there is one.
calypso_diversify_key_Cached(master_key, diversifier) ==
    IF auth_ctx.session_key # 0
      THEN auth_ctx.session_key
      ELSE calypso_3des_encrypt(master_key, diversifier)

\* The card-specific key: the diversifier enciphered under the master key.
calypso_diversify_key(master_key, diversifier) ==
    calypso_3des_encrypt(master_key, diversifier)

\* The session key: both challenges enciphered under the diversified key.
calypso_generate_session_key(diversified_key, card_challenge, reader_challenge) ==
    calypso_3des_encrypt(diversified_key,
                         (card_challenge * 2 + reader_challenge) % BlockMod)

\* The value the reader sends in the mutual-authentication command.
ReaderCryptogram(session_key, reader_challenge) ==
    calypso_3des_encrypt(session_key, reader_challenge)

\* The session key the card derives from its own key for key_index.
CardSessionKey(key_index, card_challenge, reader_challenge) ==
    calypso_generate_session_key(
        calypso_diversify_key(card_master[key_index], card.card_number),
        card_challenge, reader_challenge)

\* MutualAuthAccepted taking any answer of the card for an acceptance.
MutualAuthAccepted_Unverified(ctx, key_index, card_challenge, reader_challenge) ==
    TRUE

\* Steps (a) to (f) of authentication, for the issuer key held in ctx: the
\* card accepts the reader's cryptogram and the card's answer matches the
\* value expected under the reader's session key.
MutualAuthAccepted(ctx, key_index, card_challenge, reader_challenge) ==
    LET sk == calypso_generate_session_key(
                  calypso_diversify_key(ctx.issuer_key, card.card_number),
                  card_challenge, reader_challenge)
        csk == CardSessionKey(key_index, card_challenge, reader_challenge)
    IN  /\ ReaderCryptogram(sk, reader_challenge)
             = ReaderCryptogram(csk, reader_challenge)
        /\ calypso_3des_encrypt(csk, card_challenge)
             = calypso_3des_encrypt(sk, card_challenge)

\* A zero-initialised CalypsoAuthContext.
ZeroAuthContext ==
    [issuer_key |-> 0, session_key |-> 0, diversifier |-> 0, challenge |-> 0,
     key_index |-> 0, authenticated |-> FALSE]

\* What a call leaves behind: its outcome, the number of exchanges with the
\* card, the amount field of the counter command it sent and the value it
\* stored through its balance pointer (0 when there is none).
Returned(op, outcome, exchanges) ==
    [op |-> op, outcome |-> outcome, exchanges |-> exchanges,
     amount |-> 0, balance |-> 0]

\* The value of the C function: "@return true if successful".
ReturnValue(r) == r.outcome = "Ok"

\* The conversion of an integer argument to a uint16_t parameter.
ToUint16(n) == n % UINT16_MOD

\* The application selected on the card, 0 when there is none.
SelectedApp ==
    IF \E a \in CardAppIds : apps[a].is_selected
      THEN CHOOSE a \in CardAppIds : apps[a].is_selected
      ELSE 0

InitCalypso ==
    /\ state = "Idle"
    /\ card \in [card_number : CardNumbers, authenticated : {FALSE}]
    /\ apps = [a \in CardAppIds |->
                 [application_id |-> a, key_index |-> a, is_selected |-> FALSE]]
    /\ auth_ctx = ZeroAuthContext
    /\ card_master \in [KeyIndexes -> IssuerKeys]
    /\ card_counter = 1
    /\ card_counter_max = MaxCounter
    /\ card_record = 0
    /\ last = Returned("none", "Ok", 0)

\* The caller puts the issuer key to try into its AuthContext before it
\* opens a session.
LoadIssuerKey(key) ==
    /\ state \in {"Idle", "Selected", "Closed"}
    /\ auth_ctx' = [auth_ctx EXCEPT !.issuer_key = key]
    /\ last' = Returned("load_issuer_key", "Ok", 0)
    /\ UNCHANGED <<state, card, apps, card_master, card_counter,
                   card_counter_max, card_record>>

\* SessionAfterTransportFailure leaving an authenticated session open.
SessionAfterTransportFailure_StaysOpen(st) == st

\* Fail-closed: a communication failure ends an authenticated session.
SessionAfterTransportFailure(st) ==
    IF st = "Authenticated" THEN "Closed" ELSE st

\* bool calypso_select_application(app, const CalypsoCard* card,
\*                                 uint8_t application_id)
calypso_select_application(application_id, tr) ==
    /\ state \in {"Idle", "Selected", "Authenticated"}
    /\ IF tr # "ok"
         THEN /\ state' = SessionAfterTransportFailure(state)
              /\ last' = Returned("select_application", "TransportFailure", 1)
              /\ UNCHANGED apps
         ELSE IF application_id \notin CardAppIds
                THEN /\ last' = Returned("select_application",
                                         "ProtocolReject", 1)
                     /\ UNCHANGED <<state, apps>>
                ELSE /\ state' = "Selected"
                     /\ apps' = [a \in CardAppIds |->
                                   [apps[a] EXCEPT
                                      !.is_selected = (a = application_id)]]
                     /\ last' = Returned("select_application", "Ok", 1)
    /\ UNCHANGED <<card, auth_ctx, card_master, card_counter,
                   card_counter_max, card_record>>

\* bool calypso_open_secure_session(app, const CalypsoCard* card,
\*                                  CalypsoAuthContext* auth_ctx,
\*                                  uint8_t key_index)
\* First part, Selected -> Authenticating: the context takes the key index
\* and the card number as diversifier; nothing is exchanged yet.
OpenSecureSession_Begin(key_index) ==
    /\ state = "Selected"
    /\ state' = "Authenticating"
    /\ auth_ctx' = [auth_ctx EXCEPT !.key_index = key_index,
                                    !.diversifier = card.card_number,
                                    !.session_key = 0,
                                    !.challenge = 0,
                                    !.authenticated = FALSE]
    /\ UNCHANGED <<card, apps, card_master, card_counter, card_counter_max,
                   card_record, last>>

\* The AuthContext after an authentication that failed: not authenticated,
\* key material cleared.
AuthContextAfterFailure(ctx) ==
    [ctx EXCEPT !.issuer_key = 0, !.session_key = 0, !.challenge = 0,
                !.authenticated = FALSE]

\* Second part, Authenticating -> Authenticated or Idle: the "get challenge"
\* exchange (tr1) and the mutual-authentication exchange (tr2).
OpenSecureSession_Authenticate(tr1, tr2, card_challenge, reader_challenge) ==
    /\ state = "Authenticating"
    /\ IF tr1 # "ok"
         THEN /\ state' = "Idle"
              /\ auth_ctx' = AuthContextAfterFailure(auth_ctx)
              /\ last' = Returned("open_secure_session", "TransportFailure", 1)
         ELSE IF tr2 # "ok"
           THEN /\ state' = "Idle"
                /\ auth_ctx' = AuthContextAfterFailure(auth_ctx)
                /\ last' = Returned("open_secure_session",
                                    "TransportFailure", 2)
           ELSE IF ~MutualAuthAccepted(auth_ctx, auth_ctx.key_index,
                                       card_challenge, reader_challenge)
             THEN /\ state' = "Idle"
                  /\ auth_ctx' = AuthContextAfterFailure(auth_ctx)
                  /\ last' = Returned("open_secure_session",
                                      "ProtocolReject", 2)
             ELSE /\ state' = "Authenticated"
                  /\ auth_ctx' =
                       [auth_ctx EXCEPT
                          !.challenge = card_challenge,
                          !.session_key =
                             calypso_generate_session_key(
                                calypso_diversify_key(auth_ctx.issuer_key,
                                                      auth_ctx.diversifier),
                                card_challenge, reader_challenge),
                          !.authenticated = TRUE]
                  /\ last' = Returned("open_secure_session", "Ok", 2)
    /\ UNCHANGED <<card, apps, card_master, card_counter, card_counter_max,
                   card_record>>

\* The AuthContext after close: zeroed as with CloseClearsKeys, but only
\* when the close command went through.
AuthContextAfterClose_OnSuccessOnly(ctx, tr) ==
    IF tr = "ok"
      THEN [ctx EXCEPT !.issuer_key = 0, !.session_key = 0,
                       !.authenticated = FALSE]
      ELSE [ctx EXCEPT !.authenticated = FALSE]

\* The AuthContext after close: session key and issuer key zeroed whatever
\* the transport answered.
AuthContextAfterClose(ctx, tr) ==
    [ctx EXCEPT !.issuer_key = 0, !.session_key = 0, !.authenticated = FALSE]

\* bool calypso_close_secure_session(app, CalypsoAuthContext* auth_ctx)
calypso_close_secure_session(tr) ==
    /\ state # "Authenticating"
    /\ IF state # "Authenticated"
         THEN /\ last' = Returned("close_secure_session",
                                  "NotAuthenticated", 0)
              /\ UNCHANGED <<state, auth_ctx>>
         ELSE /\ state' = "Closed"
              /\ auth_ctx' = AuthContextAfterClose(auth_ctx, tr)
              /\ last' = Returned("close_secure_session",
                                  IF tr = "ok" THEN "Ok"
                                               ELSE "TransportFailure", 1)
    /\ UNCHANGED <<card, apps, card_master, card_counter, card_counter_max,
                   card_record>>

\* SessionIsAuthenticated trusting the flag of the context it is handed.
SessionIsAuthenticated_ByFlag(ctx) == ctx.authenticated

\* The check made by every authenticated-only operation: the state is
\* exactly Authenticated.
SessionIsAuthenticated(ctx) == state = "Authenticated"

\* bool calypso_update_record(app, const CalypsoAuthContext* auth_ctx,
\*                            file_id, record_number, data, len)
\* On a transport failure the card may or may not have applied the command.
calypso_update_record(data, tr, applied) ==
    /\ state # "Authenticating"
    /\ IF ~SessionIsAuthenticated(auth_ctx)
         THEN /\ last' = Returned("update_record", "NotAuthenticated", 0)
              /\ UNCHANGED <<state, card_record>>
         ELSE IF tr # "ok"
           THEN /\ state' = SessionAfterTransportFailure(state)
                /\ card_record' = IF applied THEN data ELSE card_record
                /\ last' = Returned("update_record", "TransportFailure", 1)
           ELSE /\ card_record' = data
                /\ last' = Returned("update_record", "Ok", 1)
                /\ UNCHANGED state
    /\ UNCHANGED <<card, apps, auth_ctx, card_master, card_counter,
                   card_counter_max>>

\* The outcome of a counter command that was sent with the given amount.
Sent(op, outcome, amount) ==
    [Returned(op, outcome, 1) EXCEPT !.amount = amount]

\* The counter command shared by increase and decrease: one command with the
\* amount in its amount field; sign is 1 to add and -1 to subtract.  The
\* card refuses a value outside its counter's range.
CounterCommand(op, amount, sign, tr, applied) ==
    /\ state # "Authenticating"
    /\ IF ~SessionIsAuthenticated(auth_ctx)
         THEN /\ last' = Returned(op, "NotAuthenticated", 0)
              /\ UNCHANGED <<state, card_counter>>
         ELSE IF card_counter + sign * amount \notin 0 .. card_counter_max
           THEN /\ IF tr # "ok"
                     THEN /\ state' = SessionAfterTransportFailure(state)
                          /\ last' = Sent(op, "TransportFailure", amount)
                     ELSE /\ last' = Sent(op, "ProtocolReject", amount)
                          /\ UNCHANGED state
                /\ UNCHANGED card_counter
           ELSE IF tr # "ok"
             THEN /\ state' = SessionAfterTransportFailure(state)
                  /\ card_counter' = IF applied
                                       THEN card_counter + sign * amount
                                       ELSE card_counter
                  /\ last' = Sent(op, "TransportFailure", amount)
             ELSE /\ card_counter' = card_counter + sign * amount
                  /\ last' = Sent(op, "Ok", amount)
                  /\ UNCHANGED state
    /\ UNCHANGED <<card, apps, auth_ctx, card_master, card_counter_max,
                   card_record>>

\* bool calypso_increase_counter(app, const CalypsoAuthContext* auth_ctx,
\*                               uint8_t counter_number, uint16_t amount)
calypso_increase_counter(amount, tr, applied) ==
    CounterCommand("increase_counter", amount, 1, tr, applied)

\* calypso_decrease_counter sending the command that adds.
calypso_decrease_counter_Adds(amount, tr, applied) ==
    CounterCommand("decrease_counter", amount, 1, tr, applied)

\* bool calypso_decrease_counter(app, const CalypsoAuthContext* auth_ctx,
\*                               uint8_t counter_number, uint16_t amount)
calypso_decrease_counter(amount, tr, applied) ==
    CounterCommand("decrease_counter", amount, -1, tr, applied)

\* bool calypso_read_counter(app, const CalypsoCard* card,
\*                           uint8_t counter_number, uint16_t* balance)
\* A plain read of the counter file of the selected application: it needs no
\* authentication; a communication failure ends an authenticated session.
calypso_read_counter(tr) ==
    /\ state \in {"Selected", "Authenticated"}
    /\ IF tr # "ok"
         THEN /\ state' = SessionAfterTransportFailure(state)
              /\ last' = Returned("read_counter", "TransportFailure", 1)
         ELSE /\ last' = [Returned("read_counter", "Ok", 1)
                            EXCEPT !.balance = ToUint16(card_counter)]
              /\ UNCHANGED state
    /\ UNCHANGED <<card, apps, auth_ctx, card_master, card_counter,
                   card_counter_max, card_record>>

(***************************************************************************)
(* State of the dictionary-attack scene.                                   *)
(***************************************************************************)
VARIABLES
    status,             \* dict_state.status
    frequency,          \* dict_state.frequency
    keys_tried,         \* dict_state.keys_tried
    total_keys,         \* dict_state.total_keys
    attack_time_ms,     \* dict_state.attack_time_ms
    found_key,          \* dict_state.found_key
    success,            \* dict_state.success
    dict_view,          \* static View* dict_view: "NULL" or "view"
    attack_start_tick,  \* static uint32_t attack_start_tick
    timer,              \* app->timer: "NULL" or "running"
    furi_tick,          \* the value furi_get_tick() returns
    scene_active,       \* between on_enter and on_exit of the scene
    view_shown,         \* the view dispatcher shows dict_view
    last_cb,            \* the callback that ran last
    match_index,        \* index in the corpus of the target's key, or NoMatch;
                        \* the scene never reads it
    live_timers,        \* FuriTimer objects allocated and not freed
    input_pc,           \* the line of its start sequence the input callback
                        \* is about to run, "none" outside the sequence
    keeloq_keys,        \* the build's KEELOQ_KEY_COUNT
    hitag2_keys         \* the build's HITAG2_KEY_COUNT

dictVars == <<status, frequency, keys_tried, total_keys, attack_time_ms,
              found_key, success, dict_view, attack_start_tick, timer,
              furi_tick, scene_active, view_shown, last_cb, match_index,
              live_timers, input_pc, keeloq_keys, hitag2_keys>>

\* What a callback that runs in one piece leaves as it was: the target, the
\* start sequence's position and the sizes of the key tables
\* (helpers/predator_crypto_keys.h, not part of the sources).
dictFixed == <<match_index, input_pc, keeloq_keys, hitag2_keys>>

\* dict_state alone: the fields of DictAttackState.
dict_state == <<status, frequency, keys_tried, total_keys, attack_time_ms,
                found_key, success>>

DictAttackStatus == {"Idle", "Attacking", "Success", "Complete"}

\* The corpus the engine walks: KEELOQ_KEYS followed by the Hitag2 keys.
CorpusSize == KEELOQ_KEY_COUNT + HITAG2_KEY_COUNT

\* match_index when no key of the corpus is the target's: one past the end.
NoMatch == CorpusSize

InputTypes == {"Short", "Long"}
InputKeys == {"Ok", "Back", "Left"}
SceneEvents == {"Back", "Custom", "Tick"}

\* The context on_enter is given: the app pointer and its view dispatcher.
EnterContexts == {"null_app", "null_view_dispatcher", "ok"}

\* The scene before its first on_enter.
InitScene ==
    /\ status = "Idle"
    /\ frequency = 0
    /\ keys_tried = 0
    /\ total_keys = 0
    /\ attack_time_ms = 0
    /\ found_key = ""
    /\ success = FALSE
    /\ dict_view = "NULL"
    /\ attack_start_tick = 0
    /\ timer = "NULL"
    /\ furi_tick = 0
    /\ scene_active = FALSE
    /\ view_shown = FALSE
    /\ last_cb = "none"
    /\ match_index \in (0 .. CorpusSize - 1) \cup {NoMatch}
    /\ live_timers = 0
    /\ input_pc = "none"

\* The scene in a build with key tables of the sizes followed here.
InitDict ==
    /\ InitScene
    /\ keeloq_keys = KEELOQ_KEY_COUNT
    /\ hitag2_keys = HITAG2_KEY_COUNT

\* The scene in a build with key tables of any size up to those, an empty
\* corpus included.
InitDictAnyCorpus ==
    /\ InitScene
    /\ match_index = NoMatch
    /\ keeloq_keys \in 0 .. KEELOQ_KEY_COUNT
    /\ hitag2_keys \in 0 .. HITAG2_KEY_COUNT

\* The system clock advances between callbacks.
ClockAdvance ==
    /\ furi_tick < MaxTick
    /\ furi_tick' = furi_tick + 1
    /\ UNCHANGED <<status, frequency, keys_tried, total_keys, attack_time_ms,
                   found_key, success, dict_view, attack_start_tick, timer,
                   scene_active, view_shown, last_cb, live_timers,
                   dictFixed>>

\* StartAttack with the Hitag2 table left out of the total.
StartAttack_KeeloqOnly ==
    /\ status' = "Attacking"
    /\ keys_tried' = 0
    /\ total_keys' = keeloq_keys
    /\ attack_time_ms' = 0
    /\ success' = FALSE
    /\ attack_start_tick' = furi_tick
    /\ UNCHANGED <<frequency, found_key>>

\* The "START ATTACK" branch of the input callback.
StartAttack ==
    /\ status' = "Attacking"
    /\ keys_tried' = 0
    /\ total_keys' = keeloq_keys + hitag2_keys
    /\ attack_time_ms' = 0
    /\ success' = FALSE
    /\ attack_start_tick' = furi_tick
    /\ UNCHANGED <<frequency, found_key>>

\* The "STOP ATTACK" branch of the input callback.
StopAttack ==
    /\ status' = "Complete"
    /\ UNCHANGED <<frequency, keys_tried, total_keys, attack_time_ms,
                   found_key, success, attack_start_tick>>

\* The input callback with the start test widened to a finished run: a short
\* OK press in status Complete starts a run as in Idle.
dict_attack_input_callback_Restarts(type, key) ==
    /\ view_shown
    /\ last_cb' = "input"
    /\ IF type = "Short" /\ key = "Ok" /\ status \in {"Idle", "Complete"}
         THEN StartAttack
         ELSE IF type = "Short" /\ key = "Ok" /\ status = "Attacking"
                THEN StopAttack
                ELSE UNCHANGED <<status, frequency, keys_tried, total_keys,
                                 attack_time_ms, found_key, success,
                                 attack_start_tick>>
    /\ UNCHANGED <<dict_view, timer, furi_tick, scene_active, view_shown,
                   live_timers, dictFixed>>

dict_attack_input_callback(type, key) ==
    /\ view_shown
    /\ last_cb' = "input"
    /\ IF type = "Short" /\ key = "Ok" /\ status = "Idle"
         THEN StartAttack
         ELSE IF type = "Short" /\ key = "Ok" /\ status = "Attacking"
                THEN StopAttack
                ELSE UNCHANGED <<status, frequency, keys_tried, total_keys,
                                 attack_time_ms, found_key, success,
                                 attack_start_tick>>
    /\ UNCHANGED <<dict_view, timer, furi_tick, scene_active, view_shown,
                   live_timers, dictFixed>>

\* The start sequence of the input callback taken one assignment at a time
\* (lines 100 to 105): dict_state is shared with the timer callback, which
\* runs in the timer service's thread, without a lock.  input_pc names the
\* field the next assignment writes.
StartStepFrame ==
    UNCHANGED <<frequency, found_key, dict_view, timer, furi_tick,
                scene_active, view_shown, match_index, live_timers,
                keeloq_keys, hitag2_keys>>

StartStep_status ==
    /\ view_shown
    /\ input_pc = "none"
    /\ status = "Idle"
    /\ status' = "Attacking"
    /\ input_pc' = "keys_tried"
    /\ UNCHANGED <<keys_tried, total_keys, attack_time_ms, success,
                   attack_start_tick, last_cb>>
    /\ StartStepFrame

StartStep_keys_tried ==
    /\ input_pc = "keys_tried"
    /\ keys_tried' = 0
    /\ input_pc' = "total_keys"
    /\ UNCHANGED <<status, total_keys, attack_time_ms, success,
                   attack_start_tick, last_cb>>
    /\ StartStepFrame

StartStep_total_keys ==
    /\ input_pc = "total_keys"
    /\ total_keys' = keeloq_keys + hitag2_keys
    /\ input_pc' = "attack_time_ms"
    /\ UNCHANGED <<status, keys_tried, attack_time_ms, success,
                   attack_start_tick, last_cb>>
    /\ StartStepFrame

StartStep_attack_time_ms ==
    /\ input_pc = "attack_time_ms"
    /\ attack_time_ms' = 0
    /\ input_pc' = "success"
    /\ UNCHANGED <<status, keys_tried, total_keys, success,
                   attack_start_tick, last_cb>>
    /\ StartStepFrame

StartStep_success ==
    /\ input_pc = "success"
    /\ success' = FALSE
    /\ input_pc' = "attack_start_tick"
    /\ UNCHANGED <<status, keys_tried, total_keys, attack_time_ms,
                   attack_start_tick, last_cb>>
    /\ StartStepFrame

StartStep_attack_start_tick ==
    /\ input_pc = "attack_start_tick"
    /\ attack_start_tick' = furi_tick
    /\ input_pc' = "none"
    /\ last_cb' = "input"
    /\ UNCHANGED <<status, keys_tried, total_keys, attack_time_ms, success>>
    /\ StartStepFrame

\* AllKeysTested with > for >=.
AllKeysTested_OffByOne(tried, total) == tried > total

\* "Complete when all keys tested": the test after keys_tried++.
AllKeysTested(tried, total) == tried >= total

\* TryNextKey counting the attempt twice.
TryNextKey_CountsTwice ==
    /\ attack_time_ms' = furi_tick - attack_start_tick
    /\ keys_tried' = keys_tried + 2
    /\ status' = IF AllKeysTested(keys_tried', total_keys)
                   THEN "Complete" ELSE "Attacking"
    /\ UNCHANGED <<frequency, total_keys, found_key, success>>

\* One key attempt: the body of the timer callback while Attacking.  The
\* counters are uint32_t; keys_tried stops at the corpus size and the clock
\* does not run backwards, so neither expression wraps.
TryNextKey ==
    /\ attack_time_ms' = furi_tick - attack_start_tick
    /\ keys_tried' = keys_tried + 1
    /\ status' = IF AllKeysTested(keys_tried', total_keys)
                   THEN "Complete" ELSE "Attacking"
    /\ UNCHANGED <<frequency, total_keys, found_key, success>>

\* The timer callback testing status != Idle in place of == Attacking.
dict_attack_timer_callback_NotIdle ==
    /\ timer = "running"
    /\ last_cb' = "timer"
    /\ IF status # "Idle"
         THEN TryNextKey
         ELSE UNCHANGED <<status, frequency, keys_tried, total_keys,
                          attack_time_ms, found_key, success>>
    /\ UNCHANGED <<dict_view, attack_start_tick, timer, furi_tick,
                   scene_active, view_shown, live_timers, dictFixed>>

dict_attack_timer_callback ==
    /\ timer = "running"
    /\ last_cb' = "timer"
    /\ IF status = "Attacking"
         THEN TryNextKey
         ELSE UNCHANGED <<status, frequency, keys_tried, total_keys,
                          attack_time_ms, found_key, success>>
    /\ UNCHANGED <<dict_view, attack_start_tick, timer, furi_tick,
                   scene_active, view_shown, live_timers, dictFixed>>

\* StopExistingTimer without the stop: the old timer is left allocated.
StopExistingTimer_Skipped(n) == n

\* "Safety: Stop any existing timer first": the number of allocated timers
\* after the timer app->timer points to, if any, has been stopped and freed.
StopExistingTimer(n) == IF timer # "NULL" THEN n - 1 ELSE n

\* on_enter without the memset of line 178: status and frequency are set,
\* the counters and the result of the previous run are kept.
predator_scene_dictionary_attack_ui_on_enter_NoMemset(ctx, view_ok, timer_ok) ==
    /\ scene_active' = TRUE
    /\ last_cb' = "on_enter"
    /\ IF ctx # "ok"
         THEN UNCHANGED <<status, frequency, dict_view, timer, view_shown,
                          live_timers>>
         ELSE /\ status' = "Idle"
              /\ frequency' = DICT_FREQUENCY
              /\ IF dict_view = "NULL" /\ ~view_ok
                   THEN UNCHANGED <<dict_view, timer, view_shown,
                                    live_timers>>
                   ELSE /\ dict_view' = "view"
                        /\ view_shown' = TRUE
                        /\ timer' = IF timer_ok THEN "running" ELSE "NULL"
                        /\ live_timers' = StopExistingTimer(live_timers)
                                            + (IF timer_ok THEN 1 ELSE 0)
    /\ UNCHANGED <<keys_tried, total_keys, attack_time_ms, found_key, success,
                   attack_start_tick, furi_tick, dictFixed>>

predator_scene_dictionary_attack_ui_on_enter(ctx, view_ok, timer_ok) ==
    /\ scene_active' = TRUE
    /\ last_cb' = "on_enter"
    /\ IF ctx # "ok"
         THEN UNCHANGED <<status, frequency, keys_tried, total_keys,
                          attack_time_ms, found_key, success, dict_view,
                          timer, view_shown, live_timers>>
         ELSE \* memset(&dict_state, 0, ...), then status and frequency
              /\ status' = "Idle"
              /\ frequency' = DICT_FREQUENCY
              /\ keys_tried' = 0
              /\ total_keys' = 0
              /\ attack_time_ms' = 0
              /\ found_key' = ""
              /\ success' = FALSE
              /\ IF dict_view = "NULL" /\ ~view_ok
                   THEN \* view_alloc failed: return before the timer
                        UNCHANGED <<dict_view, timer, view_shown,
                                    live_timers>>
                   ELSE /\ dict_view' = "view"
                        /\ view_shown' = TRUE
                        /\ timer' = IF timer_ok THEN "running" ELSE "NULL"
                        /\ live_timers' = StopExistingTimer(live_timers)
                                            + (IF timer_ok THEN 1 ELSE 0)
    /\ UNCHANGED <<attack_start_tick, furi_tick, dictFixed>>

predator_scene_dictionary_attack_ui_on_event(event) ==
    /\ scene_active
    /\ last_cb' = "on_event"
    /\ status' = IF event = "Back" /\ status = "Attacking"
                   THEN "Complete" ELSE status
    /\ UNCHANGED <<frequency, keys_tried, total_keys, attack_time_ms,
                   found_key, success, dict_view, attack_start_tick, timer,
                   furi_tick, scene_active, view_shown, live_timers,
                   dictFixed>>

predator_scene_dictionary_attack_ui_on_exit ==
    /\ scene_active' = FALSE
    /\ view_shown' = FALSE
    /\ last_cb' = "on_exit"
    /\ timer' = "NULL"
    /\ live_timers' = IF timer # "NULL" THEN live_timers - 1 ELSE live_timers
    /\ status' = "Idle"
    /\ UNCHANGED <<frequency, keys_tried, total_keys, attack_time_ms,
                   found_key, success, dict_view, attack_start_tick,
                   furi_tick, dictFixed>>

(***************************************************************************)
(* Key diversification as a caller sees it: calls of calypso_diversify_key *)
(* between the operations of a session.  probe watches one pair of inputs: *)
(* the key the first call with that pair gave, and how many such calls     *)
(* there have been.                                                        *)
(***************************************************************************)
VARIABLES
    diversified_key,    \* the output buffer after the last call, 0 before
    probe               \* the watched inputs and what they first gave

divVars == <<diversified_key, probe>>

InitDiversify ==
    /\ diversified_key = 0
    /\ probe \in [master_key : IssuerKeys, diversifier : CardNumbers,
                  key : {0}, calls : {0}, first_in : {"none"}]

\* No call of calypso_diversify_key is being watched.
DiversifyAtRest ==
    /\ diversified_key = 0
    /\ probe = [master_key |-> 1, diversifier |-> 1, key |-> 0, calls |-> 0,
                first_in |-> "none"]

\* bool calypso_diversify_key(const uint8_t* master_key,
\*                            const uint8_t* diversifier,
\*                            uint8_t* diversified_key)
DiversifyCall(master_key, diversifier) ==
    /\ state # "Authenticating"
    /\ diversified_key' = calypso_diversify_key(master_key, diversifier)
    /\ probe' =
         IF master_key = probe.master_key /\ diversifier = probe.diversifier
           THEN [probe EXCEPT
                   !.key = IF probe.calls = 0 THEN diversified_key' ELSE @,
                   !.first_in = IF probe.calls = 0 THEN state ELSE @,
                   !.calls = IF @ < MaxProbeCalls THEN @ + 1 ELSE @]
           ELSE probe
    /\ UNCHANGED calVars

(***************************************************************************)
(* Reading the contracts of a card, and the contracts viewer of            *)
(* scenes/predator_scene_calypso_contracts_ui.c.  The body of              *)
(* calypso_read_all_contracts is not part of the sources: it follows the   *)
(* design document (section 4.4).  The viewer does not call it.            *)
(***************************************************************************)
VARIABLES
    card_slots,         \* on the card: what each contract slot answers
    read_result,        \* calypso_read_all_contracts: what the last call left
    viewer_state,       \* static ContractsState* state: "NULL" or "allocated"
    contract_count,     \* state->contract_count
    selected_index,     \* state->selected_index
    view_port_added,    \* app->view_port is attached to the GUI
    draw_read           \* the indexes of contracts[] the last draw read

conVars == <<card_slots, read_result, viewer_state, contract_count,
             selected_index, view_port_added, draw_read>>

ContractSlots == 1 .. CONTRACT_SLOTS

\* What a slot answers to a read: a contract record, "file not found", or a
\* record of all-zero bytes.
SlotAnswers == {"contract", "file_not_found", "all_zero"}

\* SlotUsed counting an all-zero record for a contract.
SlotUsed_ZeroCounts(answer) == answer # "file_not_found"

\* A slot holds a contract: its answer is neither "file not found" nor all
\* zeroes.
SlotUsed(answer) == answer = "contract"

\* The scan of slots slot .. 4 in order; found is the sequence of the slots
\* stored in the output array so far, which takes max_contracts entries.
RECURSIVE ScanContracts(_, _, _, _)
ScanContracts(slots, slot, max_contracts, found) ==
    IF slot > CONTRACT_SLOTS
      THEN found
      ELSE IF SlotUsed(slots[slot]) /\ Len(found) < max_contracts
             THEN ScanContracts(slots, slot + 1, max_contracts,
                                Append(found, slot))
             ELSE ScanContracts(slots, slot + 1, max_contracts, found)

NoRead == [called |-> FALSE, max_contracts |-> 0, contracts |-> <<>>,
           count |-> 0]

\* uint32_t calypso_read_all_contracts(app, const CalypsoCard* card,
\*                                     CalypsoContract* contracts,
\*                                     uint32_t max_contracts)
calypso_read_all_contracts(max_contracts) ==
    /\ LET found == ScanContracts(card_slots, 1, max_contracts, <<>>)
       IN  read_result' = [called |-> TRUE, max_contracts |-> max_contracts,
                           contracts |-> found, count |-> Len(found)]
    /\ UNCHANGED <<card_slots, viewer_state, contract_count, selected_index,
                   view_port_added, draw_read>>

\* The viewer's handlers statement by statement.  The scene manager runs
\* on_enter and on_exit in the application's thread (scene_pc is the
\* statement it is at); the GUI service runs the callbacks set on the view
\* port in its own thread (gui_pc is the statement of the input callback it
\* is at, gui_event the event passed).  viewer_fault is set by a read of
\* state->selected_index through a pointer that is NULL or freed.
VARIABLES scene_pc, gui_pc, gui_event, viewer_fault

threadVars == <<scene_pc, gui_pc, gui_event, viewer_fault>>

NoEvent == [type |-> "none", key |-> "none"]

\* The keys and the event types of the input service; the callback tells
\* Short from the other types and Back, Left and Right from the other keys.
ViewerKeys == {"Back", "Left", "Right", "Ok", "Up", "Down"}

ViewerInputTypes == {"Press", "Release", "Short", "Long", "Repeat"}

InitContracts ==
    /\ card_slots \in [ContractSlots -> SlotAnswers]
    /\ read_result = NoRead
    /\ viewer_state = "NULL"
    /\ contract_count = 0
    /\ selected_index = 0
    /\ view_port_added = FALSE
    /\ draw_read = {}
    /\ scene_pc = "none"
    /\ gui_pc = "idle"
    /\ gui_event = NoEvent
    /\ viewer_fault = FALSE

\* The viewer before its first on_enter, with a card without contracts.
ContractsAtRest ==
    /\ InitContracts
    /\ card_slots = [n \in ContractSlots |-> "file_not_found"]

\* contracts_draw_callback: nothing is read without a state or without
\* contracts; otherwise contracts[selected_index] is.
contracts_draw_callback ==
    /\ view_port_added
    /\ draw_read' = IF viewer_state = "NULL" \/ contract_count = 0
                      THEN {}
                      ELSE {selected_index}
    /\ UNCHANGED <<card_slots, read_result, viewer_state, contract_count,
                   selected_index, view_port_added>>

\* selected_index < contract_count - 1 as the uint32_t comparison it is:
\* contract_count - 1 is 2^32 - 1 when contract_count is 0, which is above
\* every index that is followed.
BelowLastContract(index, count) ==
    IF count = 0 THEN TRUE ELSE index < count - 1

\* void predator_scene_calypso_contracts_on_exit(void* context): the view
\* port is removed and the state freed; the fields of a state that is not
\* there are kept at 0.
predator_scene_calypso_contracts_on_exit ==
    /\ view_port_added
    /\ view_port_added' = FALSE
    /\ viewer_state' = "NULL"
    /\ contract_count' = 0
    /\ selected_index' = 0
    /\ UNCHANGED <<card_slots, read_result, draw_read>>

\* contracts_input_callback: Back leaves the scene (the scene manager runs
\* on_exit before the callback returns), Left and Right move the selection.
contracts_input_callback(type, key) ==
    /\ view_port_added
    /\ IF type = "Short" /\ key = "Back"
         THEN predator_scene_calypso_contracts_on_exit
         ELSE /\ selected_index' =
                   IF type = "Short" /\ key = "Left" /\ selected_index > 0
                     THEN selected_index - 1
                     ELSE IF /\ type = "Short" /\ key = "Right"
                             /\ BelowLastContract(selected_index,
                                                  contract_count)
                             /\ selected_index < MaxSelectedIndex
                            THEN selected_index + 1
                            ELSE selected_index
              /\ UNCHANGED <<card_slots, read_result, viewer_state,
                             contract_count, view_port_added, draw_read>>

\* void predator_scene_calypso_contracts_on_enter(void* context): the call
\* that would fill contract_count is commented out, so the memset's 0 stays.
predator_scene_calypso_contracts_on_enter ==
    /\ ~view_port_added
    /\ viewer_state' = "allocated"
    /\ contract_count' = 0
    /\ selected_index' = 0
    /\ view_port_added' = TRUE
    /\ UNCHANGED <<card_slots, read_result, draw_read>>

\* bool predator_scene_calypso_contracts_on_event(context, event)
predator_scene_calypso_contracts_on_event ==
    /\ view_port_added
    /\ UNCHANGED conVars

\* on_enter, lines 120-121: state = malloc(...); memset(state, 0, ...).
OnEnter_malloc ==
    /\ scene_pc = "none"
    /\ ~view_port_added
    /\ viewer_state' = "allocated"
    /\ contract_count' = 0
    /\ selected_index' = 0
    /\ scene_pc' = "enter_add"
    /\ UNCHANGED <<card_slots, read_result, view_port_added, draw_read,
                   gui_pc, gui_event, viewer_fault>>

\* on_enter, lines 137-140: the callbacks are set and the view port is added
\* to the GUI, which attaches a view port between two callbacks.
OnEnter_gui_add_view_port ==
    /\ scene_pc = "enter_add"
    /\ gui_pc = "idle"
    /\ view_port_added' = TRUE
    /\ scene_pc' = "none"
    /\ UNCHANGED <<card_slots, read_result, viewer_state, contract_count,
                   selected_index, draw_read, gui_pc, gui_event,
                   viewer_fault>>

\* The statements of on_exit in another order: the state is freed and the
\* pointer cleared before the view port is removed.
ExitStatement_FreeFirst(n) ==
    IF n = 1 THEN "free"
    ELSE IF n = 2 THEN "state = NULL" ELSE "gui_remove_view_port"

\* The statements of on_exit in the order of lines 152-157.
ExitStatement(n) ==
    IF n = 1 THEN "gui_remove_view_port"
    ELSE IF n = 2 THEN "free" ELSE "state = NULL"

\* One statement of on_exit.  gui_remove_view_port detaches the view port
\* between two callbacks of the GUI thread; free and the assignment of NULL
\* wait for nothing.
ExitStep(statement) ==
    /\ statement = "gui_remove_view_port" => gui_pc = "idle"
    /\ view_port_added' = IF statement = "gui_remove_view_port"
                            THEN FALSE ELSE view_port_added
    /\ viewer_state' =
          IF statement = "free" /\ viewer_state = "allocated" THEN "freed"
          ELSE IF statement = "state = NULL" /\ viewer_state = "freed"
                 THEN "NULL" ELSE viewer_state
    /\ contract_count' = IF statement = "free" THEN 0 ELSE contract_count
    /\ selected_index' = IF statement = "free" THEN 0 ELSE selected_index
    /\ UNCHANGED <<card_slots, read_result, draw_read, gui_pc, gui_event,
                   viewer_fault>>

\* on_exit is run on a scene that has been entered.
OnExit_first ==
    /\ scene_pc = "none"
    /\ view_port_added
    /\ ExitStep(ExitStatement(1))
    /\ scene_pc' = "exit_second"

OnExit_second ==
    /\ scene_pc = "exit_second"
    /\ ExitStep(ExitStatement(2))
    /\ scene_pc' = "exit_third"

OnExit_third ==
    /\ scene_pc = "exit_third"
    /\ ExitStep(ExitStatement(3))
    /\ scene_pc' = "none"

\* The GUI thread passes an input event to the callback of a view port that
\* is attached.
Input_deliver(type, key) ==
    /\ gui_pc = "idle"
    /\ view_port_added
    /\ gui_pc' = "type"
    /\ gui_event' = [type |-> type, key |-> key]
    /\ UNCHANGED <<conVars, scene_pc, viewer_fault>>

\* contracts_input_callback, lines 92-96 and 113: an event that is not a
\* short press returns false; a short Back has the scene manager run on_exit
\* before the callback returns.
Input_type ==
    /\ gui_pc = "type"
    /\ IF gui_event.type = "Short" /\ gui_event.key = "Back"
         THEN /\ predator_scene_calypso_contracts_on_exit
              /\ gui_pc' = "idle"
         ELSE /\ gui_pc' = IF gui_event.type = "Short" THEN "left" ELSE "idle"
              /\ UNCHANGED conVars
    /\ gui_event' = IF gui_pc' = "idle" THEN NoEvent ELSE gui_event
    /\ UNCHANGED <<scene_pc, viewer_fault>>

\* The callback reads state->selected_index: a fault when state is NULL or
\* freed.
ReadsFreedState == viewer_state # "allocated"

\* contracts_input_callback, lines 99-103: state is read when the key is
\* Left.
Input_left ==
    /\ gui_pc = "left"
    /\ IF gui_event.key # "Left"
         THEN /\ gui_pc' = "right"
              /\ UNCHANGED <<selected_index, viewer_fault>>
         ELSE IF ReadsFreedState
                THEN /\ viewer_fault' = TRUE
                     /\ gui_pc' = "idle"
                     /\ UNCHANGED selected_index
                ELSE /\ selected_index' = IF selected_index > 0
                                            THEN selected_index - 1
                                            ELSE selected_index
                     /\ gui_pc' = IF selected_index > 0
                                    THEN "idle" ELSE "right"
                     /\ UNCHANGED viewer_fault
    /\ gui_event' = IF gui_pc' = "idle" THEN NoEvent ELSE gui_event
    /\ UNCHANGED <<card_slots, read_result, viewer_state, contract_count,
                   view_port_added, draw_read, scene_pc>>

\* contracts_input_callback, lines 105-113: state is read when the key is
\* Right.
Input_right ==
    /\ gui_pc = "right"
    /\ IF gui_event.key # "Right"
         THEN UNCHANGED <<selected_index, viewer_fault>>
         ELSE IF ReadsFreedState
                THEN /\ viewer_fault' = TRUE
                     /\ UNCHANGED selected_index
                ELSE /\ selected_index' =
                          IF /\ BelowLastContract(selected_index,
                                                  contract_count)
                             /\ selected_index < MaxSelectedIndex
                            THEN selected_index + 1
                            ELSE selected_index
                     /\ UNCHANGED viewer_fault
    /\ gui_pc' = "idle"
    /\ gui_event' = NoEvent
    /\ UNCHANGED <<card_slots, read_result, viewer_state, contract_count,
                   view_port_added, draw_read, scene_pc>>

\* The GUI thread draws between two input callbacks.
Draw_between ==
    /\ gui_pc = "idle"
    /\ contracts_draw_callback
    /\ UNCHANGED threadVars

vars == <<calVars, dictVars, divVars, conVars, threadVars>>

\* What the session engine, the dictionary-attack scene, and the contracts
\* part do not touch.
notCalypso == <<dictVars, divVars, conVars, threadVars>>
notDict == <<calVars, divVars, conVars, threadVars>>
notContracts == <<calVars, dictVars, divVars, threadVars>>
notViewer == <<calVars, dictVars, divVars>>

(***************************************************************************)
(* The specifications.  Each part runs with the others at rest.             *)
(***************************************************************************)
\* The scene before its first on_enter, with no target key to find.
DictAtRest == InitDict /\ match_index = NoMatch

\* The session engine with a card discovered and nothing selected.
CalypsoAtRest ==
    /\ InitCalypso
    /\ card.card_number = 1
    /\ \A k \in KeyIndexes : card_master[k] = 1

\* The callbacks of the scene, run by the GUI, the timer service and the scene
\* manager.
DictInput ==
    \E type \in InputTypes, key \in InputKeys :
       dict_attack_input_callback(type, key)

DictTimer == dict_attack_timer_callback

\* The scene manager enters a scene that is not the current one and exits
\* the current one.
DictOnEnter ==
    /\ ~scene_active
    /\ \E ctx \in EnterContexts, view_ok \in BOOLEAN, timer_ok \in BOOLEAN :
          predator_scene_dictionary_attack_ui_on_enter(ctx, view_ok, timer_ok)

DictOnEvent ==
    \E event \in SceneEvents :
       predator_scene_dictionary_attack_ui_on_event(event)

DictOnExit == scene_active /\ predator_scene_dictionary_attack_ui_on_exit

NextDict ==
    \/ ClockAdvance /\ UNCHANGED notDict
    \/ DictInput /\ UNCHANGED notDict
    \/ DictTimer /\ UNCHANGED notDict
    \/ DictOnEnter /\ UNCHANGED notDict
    \/ DictOnEvent /\ UNCHANGED notDict
    \/ DictOnExit /\ UNCHANGED notDict

\* The calls a user of the session engine makes.
CallLoadIssuerKey == \E key \in IssuerKeys : LoadIssuerKey(key)

CallSelect ==
    \E application_id \in RequestedAppIds, tr \in TransportResults :
       calypso_select_application(application_id, tr)

CallOpenBegin == \E key_index \in KeyIndexes : OpenSecureSession_Begin(key_index)

CallOpenAuthenticate ==
    \E tr1 \in TransportResults, tr2 \in TransportResults,
       card_challenge \in Challenges, reader_challenge \in Challenges :
       OpenSecureSession_Authenticate(tr1, tr2, card_challenge,
                                      reader_challenge)

CallClose == \E tr \in TransportResults : calypso_close_secure_session(tr)

CallUpdateRecord ==
    \E data \in RecordData, tr \in TransportResults, applied \in BOOLEAN :
       calypso_update_record(data, tr, applied)

\* A caller asking to add or subtract n: the argument is converted to the
\* uint16_t parameter.
IncreaseBy(n, tr, applied) == calypso_increase_counter(ToUint16(n), tr, applied)

DecreaseBy(n, tr, applied) == calypso_decrease_counter(ToUint16(n), tr, applied)

CallIncreaseCounter ==
    \E n \in Amounts, tr \in TransportResults, applied \in BOOLEAN :
       IncreaseBy(n, tr, applied)

CallDecreaseCounter ==
    \E n \in Amounts, tr \in TransportResults, applied \in BOOLEAN :
       DecreaseBy(n, tr, applied)

CallIncreaseCounterAnyAmount ==
    \E n \in CallerAmounts, tr \in TransportResults, applied \in BOOLEAN :
       IncreaseBy(n, tr, applied)

CallDecreaseCounterAnyAmount ==
    \E n \in CallerAmounts, tr \in TransportResults, applied \in BOOLEAN :
       DecreaseBy(n, tr, applied)

CallReadCounter == \E tr \in TransportResults : calypso_read_counter(tr)

NextCalypso ==
    \/ CallLoadIssuerKey /\ UNCHANGED notCalypso
    \/ CallSelect /\ UNCHANGED notCalypso
    \/ CallOpenBegin /\ UNCHANGED notCalypso
    \/ CallOpenAuthenticate /\ UNCHANGED notCalypso
    \/ CallClose /\ UNCHANGED notCalypso
    \/ CallUpdateRecord /\ UNCHANGED notCalypso
    \/ CallIncreaseCounter /\ UNCHANGED notCalypso
    \/ CallDecreaseCounter /\ UNCHANGED notCalypso

\* The calls of a user of the counter file: a session, counter commands with
\* any amount, and plain reads of the counter.
NextCounter ==
    \/ CallLoadIssuerKey /\ UNCHANGED notCalypso
    \/ CallSelect /\ UNCHANGED notCalypso
    \/ CallOpenBegin /\ UNCHANGED notCalypso
    \/ CallOpenAuthenticate /\ UNCHANGED notCalypso
    \/ CallClose /\ UNCHANGED notCalypso
    \/ CallIncreaseCounterAnyAmount /\ UNCHANGED notCalypso
    \/ CallDecreaseCounterAnyAmount /\ UNCHANGED notCalypso
    \/ CallReadCounter /\ UNCHANGED notCalypso

InitSpecCalypso ==
    InitCalypso /\ DictAtRest /\ DiversifyAtRest /\ ContractsAtRest

SpecCalypso == InitSpecCalypso /\ [][NextCalypso]_vars

\* The counter scenario: a discovered card whose counter is at 10 and takes
\* values up to 15.
InitSpecCounter ==
    /\ state = "Idle"
    /\ card = [card_number |-> 1, authenticated |-> FALSE]
    /\ apps = [a \in CardAppIds |->
                 [application_id |-> a, key_index |-> a, is_selected |-> FALSE]]
    /\ auth_ctx = ZeroAuthContext
    /\ card_master = [k \in KeyIndexes |-> 1]
    /\ card_counter = ScenarioCounter
    /\ card_counter_max = ScenarioCounter + ScenarioAmount
    /\ card_record = 0
    /\ last = Returned("none", "Ok", 0)
    /\ DictAtRest
    /\ DiversifyAtRest
    /\ ContractsAtRest

SpecCounter == InitSpecCounter /\ [][NextCounter]_vars

\* Sessions with calls of calypso_diversify_key between their operations.
CallDiversify ==
    \E master_key \in IssuerKeys, diversifier \in CardNumbers :
       DiversifyCall(master_key, diversifier)

NextDiversify ==
    \/ CallLoadIssuerKey /\ UNCHANGED notCalypso
    \/ CallSelect /\ UNCHANGED notCalypso
    \/ CallOpenBegin /\ UNCHANGED notCalypso
    \/ CallOpenAuthenticate /\ UNCHANGED notCalypso
    \/ CallClose /\ UNCHANGED notCalypso
    \/ CallDiversify /\ UNCHANGED <<dictVars, conVars, threadVars>>

InitSpecDiversify ==
    CalypsoAtRest /\ DictAtRest /\ InitDiversify /\ ContractsAtRest

SpecDiversify == InitSpecDiversify /\ [][NextDiversify]_vars

\* The contracts of a card being read, and the callbacks of the viewer.
CallReadAllContracts ==
    \E max_contracts \in 0 .. MaxContractsArg :
       calypso_read_all_contracts(max_contracts)

ViewerInput ==
    \E type \in InputTypes, key \in {"Back", "Left", "Right", "Ok"} :
       contracts_input_callback(type, key)

ViewerDraw == contracts_draw_callback

ViewerOnEnter == predator_scene_calypso_contracts_on_enter

ViewerOnEvent == predator_scene_calypso_contracts_on_event

ViewerOnExit == predator_scene_calypso_contracts_on_exit

NextContracts ==
    \/ CallReadAllContracts /\ UNCHANGED notContracts
    \/ ViewerInput /\ UNCHANGED notContracts
    \/ ViewerDraw /\ UNCHANGED notContracts
    \/ ViewerOnEnter /\ UNCHANGED notContracts
    \/ ViewerOnEvent /\ UNCHANGED notContracts
    \/ ViewerOnExit /\ UNCHANGED notContracts

InitSpecContracts ==
    InitContracts /\ CalypsoAtRest /\ DictAtRest /\ DiversifyAtRest

SpecContracts == InitSpecContracts /\ [][NextContracts]_vars

\* The viewer with the statements of on_enter and on_exit, in the
\* application's thread, interleaved with the input and draw callbacks of
\* the GUI thread.
DeliverInput ==
    \E type \in ViewerInputTypes, key \in ViewerKeys :
       Input_deliver(type, key)

NextViewerThreads ==
    \/ OnEnter_malloc /\ UNCHANGED notViewer
    \/ OnEnter_gui_add_view_port /\ UNCHANGED notViewer
    \/ OnExit_first /\ UNCHANGED notViewer
    \/ OnExit_second /\ UNCHANGED notViewer
    \/ OnExit_third /\ UNCHANGED notViewer
    \/ DeliverInput /\ UNCHANGED notViewer
    \/ Input_type /\ UNCHANGED notViewer
    \/ Input_left /\ UNCHANGED notViewer
    \/ Input_right /\ UNCHANGED notViewer
    \/ Draw_between /\ UNCHANGED notViewer

InitSpecViewerThreads ==
    ContractsAtRest /\ CalypsoAtRest /\ DictAtRest /\ DiversifyAtRest

SpecViewerThreads == InitSpecViewerThreads /\ [][NextViewerThreads]_vars

\* The scene with the start sequence interleaved with timer ticks: the
\* callbacks of the GUI and of the scene manager run in the application's
\* thread, one at a time; the timer callback and the clock do not wait for
\* them.
DictInputNoStart ==
    /\ input_pc = "none"
    /\ \E type \in InputTypes, key \in InputKeys :
          /\ ~(type = "Short" /\ key = "Ok" /\ status = "Idle")
          /\ dict_attack_input_callback(type, key)

DictOnEnterInTurn == input_pc = "none" /\ DictOnEnter

DictOnEventInTurn == input_pc = "none" /\ DictOnEvent

DictOnExitInTurn == input_pc = "none" /\ DictOnExit

NextDictInterleaved ==
    \/ ClockAdvance /\ UNCHANGED notDict
    \/ StartStep_status /\ UNCHANGED notDict
    \/ StartStep_keys_tried /\ UNCHANGED notDict
    \/ StartStep_total_keys /\ UNCHANGED notDict
    \/ StartStep_attack_time_ms /\ UNCHANGED notDict
    \/ StartStep_success /\ UNCHANGED notDict
    \/ StartStep_attack_start_tick /\ UNCHANGED notDict
    \/ DictInputNoStart /\ UNCHANGED notDict
    \/ DictTimer /\ UNCHANGED notDict
    \/ DictOnEnterInTurn /\ UNCHANGED notDict
    \/ DictOnEventInTurn /\ UNCHANGED notDict
    \/ DictOnExitInTurn /\ UNCHANGED notDict

\* on_enter and on_exit in any order.
DictOnEnterAnyTime ==
    \E ctx \in EnterContexts, view_ok \in BOOLEAN, timer_ok \in BOOLEAN :
       predator_scene_dictionary_attack_ui_on_enter(ctx, view_ok, timer_ok)

DictOnExitAnyTime == predator_scene_dictionary_attack_ui_on_exit

NextDictAnyOrder ==
    \/ ClockAdvance /\ UNCHANGED notDict
    \/ DictInput /\ UNCHANGED notDict
    \/ DictTimer /\ UNCHANGED notDict
    \/ DictOnEnterAnyTime /\ UNCHANGED notDict
    \/ DictOnEvent /\ UNCHANGED notDict
    \/ DictOnExitAnyTime /\ UNCHANGED notDict

InitSpecDictAnyCorpus ==
    InitDictAnyCorpus /\ CalypsoAtRest /\ DiversifyAtRest /\ ContractsAtRest

InitSpecDict ==
    InitDict /\ CalypsoAtRest /\ DiversifyAtRest /\ ContractsAtRest

SpecDict == InitSpecDict /\ [][NextDict]_vars

SpecDictInterleaved == InitSpecDict /\ [][NextDictInterleaved]_vars

SpecDictAnyOrder == InitSpecDict /\ [][NextDictAnyOrder]_vars

SpecDictAnyCorpus == InitSpecDictAnyCorpus /\ [][NextDict]_vars

\* furi_timer_start(app->timer, 100): while the periodic timer exists its
\* callback keeps being delivered.
FairSpecDict ==
    SpecDict /\ WF_vars(DictTimer /\ UNCHANGED notDict)

(***************************************************************************)
(* Properties of the card session engine (SpecCalypso).                    *)
(***************************************************************************)

\* A call of one of the authenticated-only operations.
AuthenticatedOnlyCall ==
    CallUpdateRecord \/ CallIncreaseCounter \/ CallDecreaseCounter

WrongIssuerKey == auth_ctx.issuer_key # card_master[auth_ctx.key_index]

\* C2: for every card and key index, open_secure_session running with an
\* issuer key that is not the card's never reaches Authenticated: the call
\* ends with a failure, the state machine back in Idle and
\* AuthContext.authenticated false.
C2_WrongKeyNeverAuthenticates ==
    [][ (state = "Authenticating" /\ WrongIssuerKey)
        => /\ state' = "Idle"
           /\ ~auth_ctx'.authenticated
           /\ last'.op = "open_secure_session"
           /\ last'.outcome \in {"TransportFailure", "ProtocolReject"}
      ]_vars

C2_Witness ==
    /\ state = "Idle"
    /\ ~auth_ctx.authenticated
    /\ last = Returned("open_secure_session", "ProtocolReject", 2)

ListedTransitions ==
    { <<"Idle", "Selected">>, <<"Selected", "Authenticating">>,
      <<"Authenticating", "Authenticated">>, <<"Authenticated", "Closed">>,
      <<"Authenticating", "Idle">> }

C9_CloseClearsKeys ==
    (last.op = "close_secure_session" /\ last.exchanges = 1)
    => /\ last.outcome \in {"Ok", "TransportFailure"}
       /\ auth_ctx.session_key = 0
       /\ auth_ctx.issuer_key = 0
       /\ state = "Closed"
       /\ ~auth_ctx.authenticated
       /\ ~card.authenticated

C9_Witness ==
    /\ last = Returned("close_secure_session", "TransportFailure", 1)
    /\ state = "Closed"
    /\ auth_ctx.session_key = 0
    /\ auth_ctx.issuer_key = 0
    /\ auth_ctx.diversifier # 0

\* C10: at most one application of the card has is_selected true, and once
\* a different application has been selected the authenticated flags
\* obtained under the previous one are false.
C10_SelectInvalidatesSession ==
    /\ [](Cardinality({a \in CardAppIds : apps[a].is_selected}) <= 1)
    /\ [][ (SelectedApp # 0 /\ SelectedApp' # 0 /\ SelectedApp' # SelectedApp)
           => (~auth_ctx'.authenticated /\ ~card'.authenticated) ]_vars

\* C11: the authenticated flag is not carried over from a session that has
\* ended: once the session is Closed, or back in Idle after a failure, the
\* Card's and the AuthContext's authenticated flags are false; and a flag
\* that becomes true does so in a step of open_secure_session that
\* succeeded, in no step of another operation.
C11_NoStaleAuthenticatedFlag ==
    /\ [](state \in {"Idle", "Closed"}
            => (~auth_ctx.authenticated /\ ~card.authenticated))
    /\ [][ ((~auth_ctx.authenticated /\ auth_ctx'.authenticated)
            \/ (~card.authenticated /\ card'.authenticated))
           => /\ state = "Authenticating"
              /\ last' = Returned("open_secure_session", "Ok", 2) ]_vars

\* C15: select_application called with no card in the field (the exchange
\* ends in Timeout or TransportError) reports TransportFailure, which the
\* caller can tell from ProtocolReject by what the call returns, and leaves
\* the session in Idle with no application selected.
C15_NoCardIsTransportFailure ==
    [][ \A application_id \in RequestedAppIds,
           tr \in TransportResults \ {"ok"} :
           (/\ state = "Idle"
            /\ SelectedApp = 0
            /\ calypso_select_application(application_id, tr))
           => /\ last'.outcome = "TransportFailure"
              /\ ReturnValue(last')
                   # ReturnValue(Returned("select_application",
                                          "ProtocolReject", 1))
              /\ state' = "Idle"
              /\ SelectedApp' = 0 ]_vars

(***************************************************************************)
(* Properties of key diversification (SpecDiversify).                      *)
(***************************************************************************)

UsedSlots == {n \in ContractSlots : card_slots[n] = "contract"}

\* C12 as stated: whatever the four slots answer, the count that
\* read_all_contracts returns is the number of used slots, is between 0 and
\* 4, and is at most max_contracts.
C12_CountIsUsedSlots ==
    read_result.called
    => /\ read_result.count = Cardinality(UsedSlots)
       /\ read_result.count \in 0 .. 4
       /\ read_result.count <= read_result.max_contracts

\* C12 as amended: read_all_contracts visits the slots 1..4 in order and
\* skips a slot that answers "file not found" or all zeroes; it returns the
\* number of used slots capped at max_contracts, having stored the first
\* used slots in slot order; the count is between 0 and 4, at most
\* max_contracts, and equal to the number of used slots when max_contracts
\* is at least 4.
C12_CountIsUsedSlotsUpToMax ==
    read_result.called
    => /\ read_result.count =
            IF Cardinality(UsedSlots) <= read_result.max_contracts
              THEN Cardinality(UsedSlots)
              ELSE read_result.max_contracts
       /\ read_result.count \in 0 .. 4
       /\ read_result.count <= read_result.max_contracts
       /\ read_result.max_contracts >= 4
            => read_result.count = Cardinality(UsedSlots)
       /\ Len(read_result.contracts) = read_result.count
       /\ \A i \in 1 .. read_result.count :
            /\ read_result.contracts[i] \in UsedSlots
            /\ \A n \in UsedSlots :
                  n < read_result.contracts[i]
                  => \E j \in 1 .. (i - 1) : read_result.contracts[j] = n

C12_Witness ==
    /\ read_result.called
    /\ read_result.max_contracts = 4
    /\ card_slots[1] = "file_not_found"
    /\ card_slots[3] = "all_zero"
    /\ read_result.contracts = <<2, 4>>
    /\ read_result.count = 2

\* C19: in the contracts viewer selected_index designates a loaded
\* contract: it is below contract_count when there are contracts and stays 0
\* when there are none, and no draw reads contracts[] at an index of 4 or
\* more.
C19_SelectedIndexInRange ==
    /\ contract_count > 0 => selected_index < contract_count
    /\ contract_count = 0 => selected_index = 0
    /\ \A i \in draw_read : i < CONTRACT_SLOTS

(***************************************************************************)
(* Properties of the counter operations (SpecCounter).                     *)
(***************************************************************************)

C14_AmountNotTruncated ==
    [][ \A n \in CallerAmounts, tr \in TransportResults,
           applied \in BOOLEAN :
           (/\ state = "Authenticated"
            /\ (IncreaseBy(n, tr, applied) \/ DecreaseBy(n, tr, applied)))
           => (last'.exchanges = 1 /\ last'.amount = n) ]_vars

(***************************************************************************)
(* Properties of the key-recovery engine (SpecDict, FairSpecDict).         *)
(***************************************************************************)

\* A stop request handled while a run is in progress: a short OK press in
\* the view, or the scene manager's Back event.
StopRequest ==
    \/ dict_attack_input_callback("Short", "Ok")
    \/ predator_scene_dictionary_attack_ui_on_event("Back")

C4_SuccessAtTrueKey ==
    (match_index # NoMatch /\ total_keys = CorpusSize)
    => /\ keys_tried <= match_index + 1
       /\ keys_tried = match_index + 1
          => (status = "Success" /\ success /\ found_key # "")

\* C5: a tick taken while Attacking increases keys_tried by exactly 1; a tick
\* taken in any other status leaves status, keys_tried, total_keys, success
\* and found_key as they were.
C5_OneAttemptPerTick ==
    [][ dict_attack_timer_callback
        => IF status = "Attacking"
             THEN keys_tried' = keys_tried + 1
             ELSE UNCHANGED <<status, keys_tried, total_keys, success,
                              found_key>> ]_dictVars

C5_Witness ==
    /\ last_cb = "timer"
    /\ status = "Attacking"
    /\ keys_tried = 2
    /\ attack_time_ms > 0

\* C6: a stop request handled while Attacking sets status Complete; from
\* then on the status leaves Complete only for Idle (scene exit) and no
\* tick, nor any other step, changes keys_tried.
C6_CancelStopsAttempts ==
    [][ /\ (status = "Attacking" /\ StopRequest) => status' = "Complete"
        /\ status = "Complete"
           => (keys_tried' = keys_tried /\ status' \in {"Complete", "Idle"})
      ]_dictVars

C6_Witness ==
    /\ last_cb = "timer"
    /\ status = "Complete"
    /\ keys_tried > 0
    /\ keys_tried < total_keys

\* C7: with timer ticks delivered fairly, a run that is Attacking while the
\* periodic timer exists reaches Success or Complete (or the timer is taken
\* away by the scene's exit); a run is never left Attacking with the corpus
\* exhausted, and the status is always one of the four declared ones.
C7_RunTerminates ==
    /\ [](status \in DictAttackStatus)
    /\ [](status = "Attacking" => keys_tried < total_keys)
    /\ (status = "Attacking" /\ timer = "running")
         ~> (status \in {"Success", "Complete"} \/ timer = "NULL")

C7_Witness ==
    /\ status = "Complete"
    /\ timer = "running"
    /\ total_keys = CorpusSize
    /\ keys_tried = total_keys
    /\ furi_tick = MaxTick

(***************************************************************************)
(* Properties of the scene under interleaving, for any corpus and for any  *)
(* order of on_enter and on_exit (SpecDictInterleaved, SpecDictAnyCorpus,  *)
(* SpecDictAnyOrder).                                                      *)
(***************************************************************************)

\* The run is over with keys of the corpus left untried.
EndedEarly == status = "Complete" /\ keys_tried < total_keys

\* C17: with the assignments of the start sequence interleaved with timer
\* ticks, a tick ends a run only when it has tried the last key of the
\* corpus, and status Complete with keys_tried < total_keys arises from a
\* stop request (short OK or Back) only.
C17_NoEarlyCompletion ==
    [][ /\ (dict_attack_timer_callback /\ status = "Attacking"
            /\ status' = "Complete")
           => keys_tried' = keeloq_keys + hitag2_keys
        /\ (~EndedEarly /\ EndedEarly') => StopRequest ]_vars

\* C18: keys_tried never exceeds total_keys, whatever the size of the
\* corpus, an empty corpus included.
C18_TriedAtMostTotal == keys_tried <= total_keys

\* C20: whatever the order of on_enter and on_exit, at most one timer is
\* allocated, it is the running one app->timer points to, and from on_exit
\* to the next on_enter there is none, so that no tick is delivered then.
C20_SingleTimer ==
    /\ live_timers <= 1
    /\ timer = "running" <=> live_timers = 1
    /\ ~scene_active => (timer = "NULL" /\ live_timers = 0)

C20_Witness ==
    /\ last_cb = "on_exit"
    /\ ~scene_active
    /\ timer = "NULL"
    /\ live_timers = 0
    /\ keys_tried > 0
    /\ keys_tried < total_keys


(***************************************************************************)
(* Start of a run and scene re-entry (SpecDict, SpecDictAnyOrder).         *)
(***************************************************************************)

\* The fields of the attack state the view shows, with the start tick.
AttackState == <<dict_state, attack_start_tick>>

\* C21: a short OK press in Idle starts a run (status Attacking, keys_tried
\* 0, attack_time_ms 0, success false, total_keys the corpus size); a short
\* OK press in Complete or Success, and any input that is not a short OK
\* press, leaves the attack state unchanged; status becomes Attacking only
\* from Idle, and a finished run leaves Complete or Success only through
\* on_exit or on_enter.
C21_StartOnlyFromIdle ==
    [][ /\ \A type \in InputTypes, key \in InputKeys :
              dict_attack_input_callback(type, key) =>
                /\ (type = "Short" /\ key = "Ok" /\ status = "Idle") =>
                      /\ status' = "Attacking"
                      /\ keys_tried' = 0
                      /\ attack_time_ms' = 0
                      /\ success' = FALSE
                      /\ total_keys' = keeloq_keys + hitag2_keys
                /\ (\/ type # "Short"
                    \/ key # "Ok"
                    \/ status \in {"Complete", "Success"}) =>
                      UNCHANGED AttackState
        /\ (status # "Attacking" /\ status' = "Attacking") =>
              (status = "Idle" /\ dict_attack_input_callback("Short", "Ok"))
        /\ (status \in {"Complete", "Success"} /\ status' # status) =>
              /\ status' = "Idle"
              /\ last_cb' \in {"on_enter", "on_exit"} ]_vars

\* A short OK press has been handled on a run that tried its whole corpus:
\* a stopped run has keys left, so the press came after the last tick.
C21_Witness ==
    /\ last_cb = "input"
    /\ status = "Complete"
    /\ total_keys = CorpusSize
    /\ keys_tried = total_keys
    /\ view_shown


\* C23: every on_enter that passes its null checks, from any prior state (a
\* run interrupted by on_exit, a run in progress, a finished run), ends with
\* status Idle, keys_tried, total_keys and attack_time_ms 0, success false
\* and found_key empty; on_exit by itself sets status to Idle and keeps the
\* other fields of the attack state.
C23_EnterResetsRun ==
    [][ /\ \A view_ok \in BOOLEAN, timer_ok \in BOOLEAN :
              predator_scene_dictionary_attack_ui_on_enter("ok", view_ok,
                                                           timer_ok) =>
                /\ status' = "Idle"
                /\ keys_tried' = 0
                /\ total_keys' = 0
                /\ attack_time_ms' = 0
                /\ success' = FALSE
                /\ found_key' = ""
        /\ predator_scene_dictionary_attack_ui_on_exit =>
              /\ status' = "Idle"
              /\ UNCHANGED <<frequency, keys_tried, total_keys,
                             attack_time_ms, found_key, success>> ]_vars

\* on_enter has reset the state after a run: the start tick, which is not
\* part of dict_state and is set by a start only, tells of the earlier run.
C23_Witness ==
    /\ last_cb = "on_enter"
    /\ scene_active
    /\ attack_start_tick > 0
    /\ status = "Idle"
    /\ keys_tried = 0
    /\ total_keys = 0
    /\ attack_time_ms = 0
    /\ ~success
    /\ found_key = ""


(***************************************************************************)
(* The contracts viewer, thread by thread (SpecViewerThreads).             *)
(***************************************************************************)

=============================================================================
